---- MODULE Spec2Model ----
(***************************************************************************)
(* Model of the Fogswap SDK client (src/src/lib.rs, resp_structs.rs,       *)
(* error.rs): the request dispatcher send_request, the four domain         *)
(* operations built on it, and the serde encoding / decoding of the data   *)
(* model.                                                                  *)
(***************************************************************************)
EXTENDS Integers, Sequences, FiniteSets, TLC

VARIABLES base_url, pc, call, wire, resp, bodyRead, outcome

vars == <<base_url, pc, call, wire, resp, bodyRead, outcome>>

(***************************************************************************)
(* Option<T>: None is the empty sequence, Some(x) the one-element one.     *)
(***************************************************************************)
None == <<>>

Some(x) == <<x>>

IsSome(opt) == Len(opt) = 1

(***************************************************************************)
(* serde_json::Value.  Every value has the same four fields so that any    *)
(* two values can be compared: t is the variant, s the text of a string,   *)
(* number or bool, o the members of an object, a the elements of an array. *)
(***************************************************************************)
NoMembers == [k \in {} |-> 0]

JNull == [t |-> "null", s |-> "", o |-> NoMembers, a |-> <<>>]

JStr(x) == [t |-> "string", s |-> x, o |-> NoMembers, a |-> <<>>]

JNum(x) == [t |-> "number", s |-> x, o |-> NoMembers, a |-> <<>>]

JBool(b) == [t |-> "bool", s |-> IF b THEN "true" ELSE "false", o |-> NoMembers, a |-> <<>>]

JObj(members) == [t |-> "object", s |-> "", o |-> members, a |-> <<>>]

JArr(elems) == [t |-> "array", s |-> "", o |-> NoMembers, a |-> elems]

\* Value::get(key): a member of an object, None for a missing key or a non-object
Get(v, key) == IF v.t = "object" /\ key \in DOMAIN v.o THEN Some(v.o[key]) ELSE None

\* Value::as_object(): Some(map) only for an object
AsObject(v) == IF v.t = "object" THEN Some(v.o) ELSE None

\* Value::as_str(): Some(text) only for a string
AsStr(v) == IF v.t = "string" THEN Some(v.s) ELSE None

\* Value::is_null()
IsNull(v) == v.t = "null"

(***************************************************************************)
(* Numbers.  A JSON number is kept as its text; the texts below are the    *)
(* ones serde_json holds as an integer that fits i64, every other number   *)
(* text is a float or an integer outside i64.                              *)
(***************************************************************************)
I64Texts == {"0", "1700000000", "-5"}

\* f64 -> Value (json! / to_value): a non-finite float becomes null
F64ToValue(x) == IF x \in {"NaN", "inf"} THEN JNull ELSE JNum(x)

(***************************************************************************)
(* TxType (resp_structs.rs).                                               *)
(***************************************************************************)
Standard == "TxType::Standard"

Private == "TxType::Private"

TxTypes == {Standard, Private}

\* impl ToString for TxType
to_string(tx) == IF tx = Standard THEN "standard" ELSE "private"

\* impl FromStr for TxType: Some(value), or None for Err("Invalid tx type")
from_str(str) ==
    CASE str = "standard" -> Some(Standard)
      [] str = "private" -> Some(Private)
      [] OTHER -> None

\* derive(Serialize) on a unit-variant enum without rename: the variant's name
SerializeTxType(tx) == IF tx = Standard THEN JStr("Standard") ELSE JStr("Private")

\* the variant a name selects under derive(Deserialize), None when unknown
Variant(name) ==
    CASE name = "Standard" -> Some(Standard)
      [] name = "Private" -> Some(Private)
      [] OTHER -> None

\* derive(Deserialize) from a Value: the string naming a variant, or a
\* one-member object whose key names a unit variant and whose value is null
DeserializeTxType(v) ==
    CASE v.t = "string" -> Variant(v.s)
      [] v.t = "object" /\ Cardinality(DOMAIN v.o) = 1 ->
            LET k == CHOOSE x \in DOMAIN v.o : TRUE
            IN  IF IsNull(v.o[k]) THEN Variant(k) ELSE None
      [] OTHER -> None

(***************************************************************************)
(* The response structures: fields in declaration order, <<name, type>>.   *)
(***************************************************************************)
StructFields(ty) ==
    CASE ty = "TokenList" ->
            << <<"network", "String">>, <<"network_image", "String">>,
               <<"tokens", "Vec<TokenInfo>">> >>
      [] ty = "TokenInfo" ->
            << <<"token", "String">>, <<"network", "String">>,
               <<"contract_address", "String">>, <<"image", "String">>,
               <<"is_native", "bool">> >>
      [] ty = "QuoteResponse" ->
            << <<"network_from", "String">>, <<"contract_address_from", "String">>,
               <<"amount_from", "f64">>, <<"network_to", "String">>,
               <<"contract_address_to", "String">>, <<"amount_to", "f64">>,
               <<"convert_usd", "ConvertUsd">>, <<"tx_type", "TxType">> >>
      [] ty = "ConvertUsd" ->
            << <<"from", "Option<f64>">>, <<"to", "Option<f64>">> >>
      [] ty = "TransactionInfo" ->
            << <<"id", "String">>, <<"created_at", "i64">>, <<"tx_type", "TxType">>,
               <<"network_from", "String">>, <<"contract_address_from", "String">>,
               <<"contract_address_to", "String">>, <<"network_to", "String">>,
               <<"amount_from", "f64">>, <<"amount_to", "f64">>,
               <<"payin_address", "String">>, <<"payin_extra_id", "Option<String>">>,
               <<"payin_hash", "Option<String>">>, <<"payout_address", "String">>,
               <<"payout_extra_id", "Option<String>">>, <<"payout_hash", "Option<String>">>,
               <<"convert_usd", "Option<f64>">>, <<"status", "String">> >>

StructTypes == {"TokenList", "TokenInfo", "QuoteResponse", "ConvertUsd", "TransactionInfo"}

\* the element / inner type of Vec<T> and Option<T>
Inner(ty) ==
    CASE ty = "Vec<TokenInfo>" -> "TokenInfo"
      [] ty = "Vec<TokenList>" -> "TokenList"
      [] ty = "Option<f64>" -> "f64"
      [] ty = "Option<String>" -> "String"

VecTypes == {"Vec<TokenInfo>", "Vec<TokenList>"}

OptionTypes == {"Option<f64>", "Option<String>"}

(***************************************************************************)
(* serde_json::from_value::<T>: Some(typed value), or None for a           *)
(* serde_json::Error.  A typed String, f64 or i64 is its text, a bool a    *)
(* BOOLEAN, an Option an Option, a Vec a sequence, a struct the function   *)
(* from its field names.                                                   *)
(***************************************************************************)
RECURSIVE from_value(_, _)
from_value(ty, v) ==
    CASE ty = "String" -> AsStr(v)
      [] ty = "f64" -> IF v.t = "number" THEN Some(v.s) ELSE None
      [] ty = "i64" -> IF v.t = "number" /\ v.s \in I64Texts THEN Some(v.s) ELSE None
      [] ty = "bool" -> IF v.t = "bool" THEN Some(v.s = "true") ELSE None
      [] ty = "TxType" -> DeserializeTxType(v)
      [] ty \in OptionTypes ->
            IF IsNull(v) THEN Some(None)
            ELSE LET r == from_value(Inner(ty), v)
                 IN  IF IsSome(r) THEN Some(Some(r[1])) ELSE None
      [] ty \in VecTypes ->
            IF v.t # "array" THEN None
            ELSE LET rs == [i \in 1..Len(v.a) |-> from_value(Inner(ty), v.a[i])]
                 IN  IF \A i \in 1..Len(v.a) : IsSome(rs[i])
                     THEN Some([i \in 1..Len(v.a) |-> rs[i][1]])
                     ELSE None
      [] ty \in StructTypes ->
            LET fs == StructFields(ty)
                n == Len(fs)
                names == {fs[i][1] : i \in 1..n}
                idx(name) == CHOOSE i \in 1..n : fs[i][1] = name
                \* a missing member is None for an Option field, an error otherwise
                member(i) ==
                    IF v.t = "object"
                    THEN IF fs[i][1] \in DOMAIN v.o THEN from_value(fs[i][2], v.o[fs[i][1]])
                         ELSE IF fs[i][2] \in OptionTypes THEN Some(None) ELSE None
                    ELSE from_value(fs[i][2], v.a[i])
                rs == [i \in 1..n |-> member(i)]
            IN  IF v.t = "object" \/ (v.t = "array" /\ Len(v.a) = n)
                THEN IF \A i \in 1..n : IsSome(rs[i])
                     THEN Some([name \in names |-> rs[idx(name)][1]])
                     ELSE None
                ELSE None

(***************************************************************************)
(* Encoding of the arguments by json! (serde_json::to_value).              *)
(***************************************************************************)
\* Option<TxType> -> Value
TxTypeArgToValue(opt) == IF IsSome(opt) THEN SerializeTxType(opt[1]) ELSE JNull

\* Option<bool> -> Value
BoolArgToValue(opt) == IF IsSome(opt) THEN JBool(opt[1]) ELSE JNull

\* Option<String> -> Value
StringArgToValue(opt) == IF IsSome(opt) THEN JStr(opt[1]) ELSE JNull

(***************************************************************************)
(* The client: FogswapSdk::new and the request dispatcher.                 *)
(***************************************************************************)
BASE_URL == "https://api.fogswap.io/v1"

\* serde_urlencoded's text of a query value (strings, numbers and bools)
QueryText(v) == v.s

\* a GET branch that keeps the null members, sent as `key=`
QueryParamsKeepNulls(members) == [k \in DOMAIN members |-> QueryText(members[k])]

\* GET branch: the non-null members of the parameter set, as query pairs
QueryParams(members) ==
    LET kept == {k \in DOMAIN members : ~IsNull(members[k])}
    IN  [k \in kept |-> QueryText(members[k])]

\* the request send_request builds and sends, before the first await:
\* kind "send" with the request, "unsupported" for a method outside GET/POST,
\* "panic" when a GET parameter set is not an object (as_object().unwrap())
NoRequest == [method |-> "", url |-> "", query |-> None, content_type |-> None, body |-> None]

\* a dispatcher that drops the null members for POST as it does for GET
BuildRequestPostDropsNulls(base, req_method, endpoint, payload) ==
    LET url == base \o endpoint
        kept(members) == {k \in DOMAIN members : ~IsNull(members[k])}
    IN  CASE req_method = "GET" ->
                IF IsSome(payload)
                THEN IF IsSome(AsObject(payload[1]))
                     THEN [kind |-> "send",
                           req |-> [method |-> "GET", url |-> url,
                                    query |-> Some(QueryParams(AsObject(payload[1])[1])),
                                    content_type |-> None, body |-> None]]
                     ELSE [kind |-> "panic", req |-> NoRequest]
                ELSE [kind |-> "send",
                      req |-> [method |-> "GET", url |-> url, query |-> None,
                               content_type |-> None, body |-> None]]
          [] req_method = "POST" ->
                [kind |-> "send",
                 req |-> [method |-> "POST", url |-> url, query |-> None,
                          content_type |-> Some("application/json"),
                          body |-> IF IsSome(payload) /\ IsSome(AsObject(payload[1]))
                                   THEN Some(JObj([k \in kept(payload[1].o) |->
                                                      payload[1].o[k]]))
                                   ELSE payload]]
          [] OTHER -> [kind |-> "unsupported", req |-> NoRequest]

BuildRequest(base, req_method, endpoint, payload) ==
    LET url == base \o endpoint
    IN  CASE req_method = "GET" ->
                IF IsSome(payload)
                THEN IF IsSome(AsObject(payload[1]))
                     THEN [kind |-> "send",
                           req |-> [method |-> "GET", url |-> url,
                                    query |-> Some(QueryParams(AsObject(payload[1])[1])),
                                    content_type |-> None, body |-> None]]
                     ELSE [kind |-> "panic", req |-> NoRequest]
                ELSE [kind |-> "send",
                      req |-> [method |-> "GET", url |-> url, query |-> None,
                               content_type |-> None, body |-> None]]
          [] req_method = "POST" ->
                [kind |-> "send",
                 req |-> [method |-> "POST", url |-> url, query |-> None,
                          content_type |-> Some("application/json"), body |-> payload]]
          [] OTHER -> [kind |-> "unsupported", req |-> NoRequest]

\* a response as the transport hands it over: kind "failed" when send() fails
\* (no response), else the status and the body (json: whether it parses)
NoResponse == [kind |-> "none", status |-> 0, json |-> FALSE, body |-> JNull]

\* what a call hands back: kind "ok" with the value, "err" with the error and
\* its message, "panic" when the call unwinds instead of returning
Pending == [kind |-> "none", err |-> "", msg |-> "", val |-> None]

Ok(v) == [kind |-> "ok", err |-> "", msg |-> "", val |-> Some(v)]

Err(e, m) == [kind |-> "err", err |-> e, msg |-> m, val |-> None]

Panic == [kind |-> "panic", err |-> "", msg |-> "", val |-> None]

\* send_request after send().await: the status check, then the body read.
\* The transport's own failures come back as reqwest::Error.
\* a status check that lets every 2xx status through
StatusIsSuccess(status) == status \in 200..299

StatusOk(status) == status = 200

ReadsBody(r) == r.kind = "response" /\ StatusOk(r.status)

SendRequestResult(r) ==
    IF r.kind = "failed" THEN Err("reqwest::Error", "")
    ELSE IF ~StatusOk(r.status) THEN Err("SendRequestError", "")
    ELSE IF ~r.json THEN Err("reqwest::Error", "")
    ELSE Ok(r.body)

(***************************************************************************)
(* The envelope unwrap every domain operation performs on the dispatcher's *)
(* value: get("error").unwrap().as_object(), then message or result.       *)
(***************************************************************************)
ErrorMessage(members) ==
    IF "message" \in DOMAIN members /\ IsSome(AsStr(members["message"]))
    THEN Some(members["message"].s)
    ELSE None

\* an unwrap that looks at result first and at error only without one
UnwrapResultFirst(body, errKind, ty) ==
    LET e == Get(body, "error")
        r == Get(body, "result")
    IN  IF ~IsSome(e) THEN Panic
        ELSE IF IsSome(r) /\ IsSome(from_value(ty, r[1])) THEN Ok(from_value(ty, r[1])[1])
        ELSE IF IsSome(AsObject(e[1]))
        THEN LET m == ErrorMessage(AsObject(e[1])[1])
             IN  IF IsSome(m) THEN Err(errKind, m[1]) ELSE Panic
        ELSE IF ~IsSome(r) THEN Panic
        ELSE Err("serde_json::Error", "")

Unwrap(body, errKind, ty) ==
    LET e == Get(body, "error")
    IN  IF ~IsSome(e) THEN Panic
        ELSE IF IsSome(AsObject(e[1]))
        THEN LET m == ErrorMessage(AsObject(e[1])[1])
             IN  IF IsSome(m) THEN Err(errKind, m[1]) ELSE Panic
        ELSE LET r == Get(body, "result")
             IN  IF ~IsSome(r) THEN Panic
                 ELSE LET d == from_value(ty, r[1])
                      IN  IF IsSome(d) THEN Ok(d[1]) ELSE Err("serde_json::Error", "")

\* `?` on the dispatcher's result, then the unwrap
Complete(r, errKind, ty) ==
    LET sent == SendRequestResult(r)
    IN  IF sent.kind = "ok" THEN Unwrap(sent.val[1], errKind, ty) ELSE sent

get_token_list_result(r) == Complete(r, "GetAvailableCoinsError", "Vec<TokenList>")

get_quote_result(r) == Complete(r, "GetEstimatedExchangeAmountError", "QuoteResponse")

create_transaction_result(r) == Complete(r, "CreateTransactionError", "TransactionInfo")

get_transaction_info_result(r) == Complete(r, "GetTransactionInfoError", "TransactionInfo")

(***************************************************************************)
(* The parameter sets of the domain operations.                            *)
(***************************************************************************)
NoArgs ==
    [amount_from |-> "0.0", network_from |-> "", contract_address_from |-> "",
     network_to |-> "", contract_address_to |-> "", payout_address |-> "",
     payout_extra_id |-> None, tx_type |-> None, is_use_xmr |-> None, id |-> ""]

QuoteParams(args) ==
    JObj([amount_from |-> F64ToValue(args.amount_from),
          network_from |-> JStr(args.network_from),
          contract_address_from |-> JStr(args.contract_address_from),
          network_to |-> JStr(args.network_to),
          contract_address_to |-> JStr(args.contract_address_to),
          tx_type |-> TxTypeArgToValue(args.tx_type),
          is_use_xmr |-> BoolArgToValue(args.is_use_xmr)])

CreateParams(args) ==
    JObj([network_from |-> JStr(args.network_from),
          contract_address_from |-> JStr(args.contract_address_from),
          amount_from |-> F64ToValue(args.amount_from),
          network_to |-> JStr(args.network_to),
          contract_address_to |-> JStr(args.contract_address_to),
          payout_address |-> JStr(args.payout_address),
          payout_extra_id |-> StringArgToValue(args.payout_extra_id),
          tx_type |-> TxTypeArgToValue(args.tx_type),
          is_use_xmr |-> BoolArgToValue(args.is_use_xmr)])

InfoParams(args) == JObj([tx_id |-> JStr(args.id)])

(***************************************************************************)
(* Calls.  Each call slot is one call of the client by some caller;        *)
(* callers share the client (&self).  pc is the call's position: "idle"    *)
(* (no call), "sending" (suspended in send().await), "responded" (the      *)
(* transport has completed), "done" (the call has returned or unwound).    *)
(***************************************************************************)
Calls == {1, 2}

Ops == {"get_token_list", "get_quote", "create_transaction", "get_transaction_info"}

NoCall ==
    [op |-> "none", req_method |-> "", endpoint |-> "", payload |-> None, args |-> NoArgs]

Init ==
    /\ base_url = BASE_URL
    /\ pc = [c \in Calls |-> "idle"]
    /\ call = [c \in Calls |-> NoCall]
    /\ wire = [c \in Calls |-> <<>>]
    /\ resp = [c \in Calls |-> NoResponse]
    /\ bodyRead = [c \in Calls |-> FALSE]
    /\ outcome = [c \in Calls |-> Pending]

\* send_request up to its first await: build the request and hand it to the
\* transport, or return / unwind at once without any network activity
Dispatch(c, op, args, req_method, endpoint, payload) ==
    LET b == BuildRequest(base_url, req_method, endpoint, payload)
    IN  /\ pc[c] = "idle"
        /\ call' = [call EXCEPT ![c] =
                        [op |-> op, req_method |-> req_method, endpoint |-> endpoint,
                         payload |-> payload, args |-> args]]
        /\ IF b.kind = "send"
           THEN /\ wire' = [wire EXCEPT ![c] = Append(@, b.req)]
                /\ pc' = [pc EXCEPT ![c] = "sending"]
                /\ UNCHANGED outcome
           ELSE /\ pc' = [pc EXCEPT ![c] = "done"]
                /\ outcome' = [outcome EXCEPT ![c] =
                                  IF b.kind = "unsupported"
                                  THEN Err("UnsupportedMethod", "") ELSE Panic]
                /\ UNCHANGED wire
        /\ UNCHANGED <<base_url, resp, bodyRead>>

get_token_list(c) ==
    Dispatch(c, "get_token_list", NoArgs, "GET", "/market/tokens", None)

get_quote(c, amount_from, network_from, contract_address_from, network_to, contract_address_to, tx_type, is_use_xmr) ==
    LET args == [NoArgs EXCEPT !.amount_from = amount_from,
                               !.network_from = network_from,
                               !.contract_address_from = contract_address_from,
                               !.network_to = network_to,
                               !.contract_address_to = contract_address_to,
                               !.tx_type = tx_type,
                               !.is_use_xmr = is_use_xmr]
    IN  Dispatch(c, "get_quote", args, "GET", "/transaction/quote", Some(QuoteParams(args)))

create_transaction(c, network_from, contract_address_from, network_to, contract_address_to, amount_from, payout_address, payout_extra_id, tx_type, is_use_xmr) ==
    LET args == [NoArgs EXCEPT !.amount_from = amount_from,
                               !.network_from = network_from,
                               !.contract_address_from = contract_address_from,
                               !.network_to = network_to,
                               !.contract_address_to = contract_address_to,
                               !.payout_address = payout_address,
                               !.payout_extra_id = payout_extra_id,
                               !.tx_type = tx_type,
                               !.is_use_xmr = is_use_xmr]
    IN  Dispatch(c, "create_transaction", args, "POST", "/transaction/create",
                 Some(CreateParams(args)))

get_transaction_info(c, id) ==
    LET args == [NoArgs EXCEPT !.id = id]
    IN  Dispatch(c, "get_transaction_info", args, "GET", "/transaction/info",
                 Some(InfoParams(args)))

\* a call of the dispatcher itself, with any method and parameter set
send_request(c, req_method, endpoint, payload) ==
    Dispatch(c, "send_request", NoArgs, req_method, endpoint, payload)

\* the transport completes the round trip of call c with response r
Deliver(c, r) ==
    /\ pc[c] = "sending"
    /\ resp' = [resp EXCEPT ![c] = r]
    /\ pc' = [pc EXCEPT ![c] = "responded"]
    /\ UNCHANGED <<base_url, call, wire, bodyRead, outcome>>

\* a response kept in one place shared by all calls of the client
ResponseShared(c) == resp[1]

\* the response call c works on when it resumes
Response(c) == resp[c]

\* what operation op makes of response r
OutcomeOf(op, r) ==
    CASE op = "get_token_list" -> get_token_list_result(r)
      [] op = "get_quote" -> get_quote_result(r)
      [] op = "create_transaction" -> create_transaction_result(r)
      [] op = "get_transaction_info" -> get_transaction_info_result(r)
      [] OTHER -> SendRequestResult(r)

\* a resumption that sends the request once more after a non-200 status
ReturnRetry(c) ==
    /\ pc[c] = "responded"
    /\ IF resp[c].kind = "response" /\ ~StatusOk(resp[c].status) /\ Len(wire[c]) < 2
       THEN /\ wire' = [wire EXCEPT ![c] = Append(@, @[1])]
            /\ pc' = [pc EXCEPT ![c] = "sending"]
            /\ UNCHANGED <<bodyRead, outcome>>
       ELSE /\ bodyRead' = [bodyRead EXCEPT ![c] = ReadsBody(Response(c))]
            /\ outcome' = [outcome EXCEPT ![c] = OutcomeOf(call[c].op, Response(c))]
            /\ pc' = [pc EXCEPT ![c] = "done"]
            /\ UNCHANGED wire
    /\ UNCHANGED <<base_url, call, resp>>

\* call c resumes after the round trip and runs to its end
Return(c) ==
    /\ pc[c] = "responded"
    /\ bodyRead' = [bodyRead EXCEPT ![c] = ReadsBody(Response(c))]
    /\ outcome' = [outcome EXCEPT ![c] = OutcomeOf(call[c].op, Response(c))]
    /\ pc' = [pc EXCEPT ![c] = "done"]
    /\ UNCHANGED <<base_url, call, wire, resp>>

\* the caller takes the outcome; the slot is free for the next call
Drop(c) ==
    /\ pc[c] = "done"
    /\ pc' = [pc EXCEPT ![c] = "idle"]
    /\ call' = [call EXCEPT ![c] = NoCall]
    /\ wire' = [wire EXCEPT ![c] = <<>>]
    /\ resp' = [resp EXCEPT ![c] = NoResponse]
    /\ bodyRead' = [bodyRead EXCEPT ![c] = FALSE]
    /\ outcome' = [outcome EXCEPT ![c] = Pending]
    /\ UNCHANGED base_url

(***************************************************************************)
(* Inputs: the arguments callers pass and the responses the server gives.  *)
(***************************************************************************)
Amounts == {"1.0", "NaN"}

TxTypeArgs == {None, Some(Standard), Some(Private)}

XmrArgs == {None, Some(TRUE)}

ExtraIdArgs == {None, Some(""), Some("memo")}

Ids == {"S7ZulO3j16"}

PayoutAddress == "ARBmhGy4ydx7ouUrLGhgsNJyDMBL25AuKWeh311k8cBP"

Messages == {"not found", " Bad amount "}

\* result payloads: well-formed ones for each result type, with the tx_type
\* text in either case, and ill-formed ones
TokensPayload ==
    JArr(<< JObj([network |-> JStr("sol"), network_image |-> JStr("..."),
                  tokens |-> JArr(<<>>)]) >>)

QuotePayload(tx) ==
    JObj([network_from |-> JStr("sol"), contract_address_from |-> JStr("SOL"),
          amount_from |-> JNum("1.0"), network_to |-> JStr("sol"),
          contract_address_to |-> JStr("SOL"), amount_to |-> JNum("0.9"),
          convert_usd |-> JObj([from |-> JNum("100.0"), to |-> JNum("90.0")]),
          tx_type |-> JStr(tx)])

InfoPayload(tx) ==
    JObj([id |-> JStr("S7ZulO3j16"), created_at |-> JNum("1700000000"),
          tx_type |-> JStr(tx), network_from |-> JStr("sol"),
          contract_address_from |-> JStr("SOL"), contract_address_to |-> JStr("SOL"),
          network_to |-> JStr("sol"), amount_from |-> JNum("1.0"),
          amount_to |-> JNum("0.9"), payin_address |-> JStr("payin"),
          payin_extra_id |-> JNull, payout_address |-> JStr(PayoutAddress),
          payout_hash |-> JStr("hash"), convert_usd |-> JNum("100.0"),
          status |-> JStr("waiting")])

\* a quote without amount_to, and one whose amount_from is a string
QuoteMissingField ==
    JObj([f \in DOMAIN QuotePayload("Private").o \ {"amount_to"} |->
             QuotePayload("Private").o[f]])

QuoteMistypedField ==
    JObj([QuotePayload("Private").o EXCEPT !["amount_from"] = JStr("1.0")])

WellFormedPayloads ==
    {TokensPayload} \cup {QuotePayload(tx) : tx \in {"private", "Private", "standard"}}
        \cup {InfoPayload(tx) : tx \in {"private", "Standard"}}

ResultMembers == WellFormedPayloads \cup {QuoteMissingField, QuoteMistypedField, JNull}

ErrorMembers ==
    {JNull, JStr("oops"), JObj(NoMembers), JObj([message |-> JNum("5")])}
        \cup {JObj([message |-> JStr(m)]) : m \in Messages}

\* the envelopes: each of error and result present or not
Envelopes(errors, results) ==
    {JObj([result |-> r]) : r \in results}
        \cup {JObj([error |-> e]) : e \in errors}
        \cup {JObj([error |-> e, result |-> r]) : e \in errors, r \in results}
        \cup {JObj(NoMembers)}

\* the responses: a failed round trip, or a status with a body that is an
\* envelope, some other JSON value, or no JSON at all
Responses(statuses, envelopes) ==
    {[kind |-> "failed", status |-> 0, json |-> FALSE, body |-> JNull]}
        \cup {[kind |-> "response", status |-> st, json |-> TRUE, body |-> b] :
                 st \in statuses, b \in envelopes \cup {JArr(<<>>)}}
        \cup {[kind |-> "response", status |-> st, json |-> FALSE, body |-> JNull] :
                 st \in statuses}

Statuses == {200, 201, 404}

AllResponses == Responses(Statuses, Envelopes(ErrorMembers, ResultMembers))

\* the parameter sets a direct dispatcher call is given
DirectPayloads ==
    {None, Some(InfoParams(NoArgs)), Some(JObj([tx_id |-> JStr("x"), memo |-> JNull]))}

\* the methods a direct dispatcher call names; only GET and POST are handled
Methods == {"GET", "POST", "PUT"}

(***************************************************************************)
(* One caller at a time, all inputs.                                       *)
(***************************************************************************)
Start(c, amounts, txs, xmrs, extras) ==
    \/ get_token_list(c)
    \/ \E a \in amounts, tx \in txs, x \in xmrs :
          get_quote(c, a, "sol", "SOL", "sol", "SOL", tx, x)
    \/ \E a \in amounts, e \in extras, tx \in txs, x \in xmrs :
          create_transaction(c, "sol", "SOL", "sol", "SOL", a, PayoutAddress, e, tx, x)
    \/ \E id \in Ids : get_transaction_info(c, id)
    \/ \E m \in Methods, p \in DirectPayloads : send_request(c, m, "/market/tokens", p)

Next ==
    \E c \in {1} :
        \/ Start(c, Amounts, TxTypeArgs, XmrArgs, ExtraIdArgs)
        \/ \E r \in AllResponses : Deliver(c, r)
        \/ Return(c)
        \/ Drop(c)

Spec == Init /\ [][Next]_vars

(***************************************************************************)
(* Concurrent callers on one client, fewer inputs.                         *)
(***************************************************************************)
FewResponses ==
    Responses({200, 404},
              Envelopes({JNull, JObj([message |-> JStr("not found")])},
                        {QuotePayload("Private")}))

NextConc ==
    \E c \in Calls :
        \/ Start(c, {"1.0"}, {None, Some(Private)}, {None}, {None})
        \/ \E r \in FewResponses : Deliver(c, r)
        \/ Return(c)
        \/ Drop(c)

SpecConc == Init /\ [][NextConc]_vars

(***************************************************************************)
(* Properties.                                                             *)
(***************************************************************************)
\* call c has returned (or unwound) from one of the four domain operations
ReturnedOp(c) == pc[c] = "done" /\ call[c].op \in Ops

\* call c was answered with status 200 and a body that is JSON
Answered200(c) == resp[c].kind = "response" /\ resp[c].status = 200 /\ resp[c].json

\* the error kind each operation declares (error.rs)
ErrorKindOf(op) ==
    CASE op = "get_token_list" -> "GetAvailableCoinsError"
      [] op = "get_quote" -> "GetEstimatedExchangeAmountError"
      [] op = "create_transaction" -> "CreateTransactionError"
      [] op = "get_transaction_info" -> "GetTransactionInfoError"

\* the envelope has an error object with a string message
HasErrorMessage(b) ==
    /\ b.t = "object"
    /\ "error" \in DOMAIN b.o
    /\ b.o["error"].t = "object"
    /\ "message" \in DOMAIN b.o["error"].o
    /\ b.o["error"].o["message"].t = "string"

\* the envelope has an error member that is no object (null, say)
HasNoErrorObject(b) ==
    /\ b.t = "object"
    /\ "error" \in DOMAIN b.o
    /\ b.o["error"].t # "object"

\* the payloads that are well-formed results of each operation
WellFormedFor(op) ==
    CASE op = "get_token_list" -> {TokensPayload}
      [] op = "get_quote" -> {QuotePayload(tx) : tx \in {"private", "Private", "standard"}}
      [] OTHER -> {InfoPayload(tx) : tx \in {"private", "Standard"}}

\* C1: with status 200 and an envelope whose error is an object with a string
\* message M, each domain operation fails with its own error kind carrying
\* exactly M, also when the envelope has a well-formed result.
C1_ErrorEnvelopeFails ==
    \A c \in Calls :
        (ReturnedOp(c) /\ Answered200(c) /\ HasErrorMessage(resp[c].body)) =>
            /\ outcome[c].kind = "err"
            /\ outcome[c].err = ErrorKindOf(call[c].op)
            /\ outcome[c].msg = resp[c].body.o["error"].o["message"].s
            /\ outcome[c].val = None

C1_Witness ==
    \E c \in Calls :
        /\ ReturnedOp(c) /\ Answered200(c)
        /\ call[c].op = "get_transaction_info"
        /\ resp[c].body = JObj([error |-> JObj([message |-> JStr(" Bad amount ")]),
                                result |-> InfoPayload("Standard")])
        /\ outcome[c] = Err("GetTransactionInfoError", " Bad amount ")

\* C2 (as claimed): with status 200 and an envelope without the error key
\* whose result is well-formed for the operation, the call returns the typed
\* result; get_token_list on the one-network envelope returns one element.
C2_NoErrorKeyReturnsResult ==
    \A c \in Calls :
        (ReturnedOp(c) /\ Answered200(c) /\ resp[c].body.t = "object"
            /\ DOMAIN resp[c].body.o = {"result"}
            /\ resp[c].body.o["result"] \in WellFormedFor(call[c].op)) =>
            /\ outcome[c].kind = "ok"
            /\ call[c].op = "get_token_list" =>
                  /\ Len(outcome[c].val[1]) = 1
                  /\ outcome[c].val[1][1]["network"] = "sol"
                  /\ outcome[c].val[1][1]["tokens"] = <<>>

\* C3: with any status other than 200 each domain operation fails with
\* SendRequestError whatever the body, and the body is never read.
C3_Non200Fails ==
    \A c \in Calls :
        (ReturnedOp(c) /\ resp[c].kind = "response" /\ resp[c].status # 200) =>
            /\ outcome[c] = Err("SendRequestError", "")
            /\ ~bodyRead[c]

C3_Witness ==
    \E c \in Calls :
        /\ ReturnedOp(c)
        /\ call[c].op = "get_quote"
        /\ resp[c].status = 201
        /\ resp[c].body = JObj([error |-> JNull, result |-> QuotePayload("Private")])
        /\ outcome[c].err = "SendRequestError"
        /\ ~bodyRead[c]

\* the value call c put on the wire under key
SentUnder(c, key) ==
    IF call[c].req_method = "GET"
    THEN wire[c][1].query[1][key]
    ELSE wire[c][1].body[1].o[key].s

\* C4 (as claimed): when get_quote or create_transaction is called with a
\* tx_type, the value sent under tx_type is "standard" for Standard and
\* "private" for Private.
C4_TxTypeSentLowercase ==
    \A c \in Calls :
        (pc[c] # "idle" /\ call[c].op \in {"get_quote", "create_transaction"}
            /\ IsSome(call[c].args.tx_type)) =>
            SentUnder(c, "tx_type") =
                (IF call[c].args.tx_type[1] = Standard THEN "standard" ELSE "private")

\* C5 (as claimed): a result payload whose tx_type is "private" decodes to
\* Private ("standard" to Standard), and any other text is a format error.
C5_TxTypeDecodesLowercase ==
    /\ \A tx \in TxTypes : from_str(to_string(tx)) = Some(tx)
    /\ \A c \in Calls :
        (ReturnedOp(c) /\ Answered200(c) /\ HasNoErrorObject(resp[c].body)
            /\ call[c].op # "get_token_list"
            /\ "result" \in DOMAIN resp[c].body.o
            /\ resp[c].body.o["result"] \in WellFormedFor(call[c].op)) =>
            LET text == resp[c].body.o["result"].o["tx_type"].s
            IN  CASE text = "private" ->
                        outcome[c].kind = "ok" /\ outcome[c].val[1]["tx_type"] = Private
                  [] text = "standard" ->
                        outcome[c].kind = "ok" /\ outcome[c].val[1]["tx_type"] = Standard
                  [] OTHER -> outcome[c].kind = "err"

\* C6 (as claimed): whatever the body of a 200 response, a domain operation
\* ends in a returned success or a returned failure, never in an abort.
C6_NeverAborts ==
    \A c \in Calls :
        (ReturnedOp(c) /\ resp[c].kind = "response" /\ resp[c].status = 200) =>
            outcome[c].kind \in {"ok", "err"}

\* the required and the optional keys of the quote parameter set
QuoteRequiredKeys ==
    {"amount_from", "network_from", "contract_address_from", "network_to",
     "contract_address_to"}

CreateKeys ==
    {"network_from", "contract_address_from", "amount_from", "network_to",
     "contract_address_to", "payout_address", "payout_extra_id", "tx_type",
     "is_use_xmr"}

\* C7: the query string of a GET dispatch with a parameter set has exactly
\* the keys whose values are non-null; get_quote (with a finite amount) sends
\* its five required keys, tx_type only when given and is_use_xmr only when
\* given.
C7_GetDropsNulls ==
    \A c \in Calls :
        (pc[c] # "idle" /\ call[c].req_method = "GET" /\ IsSome(call[c].payload)) =>
            LET q == wire[c][1].query[1]
                params == call[c].payload[1].o
            IN  /\ \A k \in DOMAIN params : (k \in DOMAIN q) <=> params[k] # JNull
                /\ DOMAIN q \subseteq DOMAIN params
                /\ \A k \in DOMAIN q : q[k] = params[k].s
                /\ (call[c].op = "get_quote" /\ call[c].args.amount_from = "1.0") =>
                      DOMAIN q = QuoteRequiredKeys
                                    \cup (IF IsSome(call[c].args.tx_type)
                                          THEN {"tx_type"} ELSE {})
                                    \cup (IF IsSome(call[c].args.is_use_xmr)
                                          THEN {"is_use_xmr"} ELSE {})

C7_Witness ==
    \E c \in Calls :
        /\ pc[c] = "sending"
        /\ call[c].op = "get_quote"
        /\ call[c].args.tx_type = None
        /\ call[c].args.is_use_xmr = None
        /\ call[c].payload[1].o["tx_type"] = JNull
        /\ DOMAIN wire[c][1].query[1] = QuoteRequiredKeys

\* C8: the JSON body of a POST dispatch with a parameter set has every key of
\* the set, null-valued entries kept as null; create_transaction sends all
\* nine keys, an absent payout_extra_id, tx_type or is_use_xmr being null and
\* never an empty string.
C8_PostKeepsNulls ==
    \A c \in Calls :
        (pc[c] # "idle" /\ call[c].req_method = "POST" /\ IsSome(call[c].payload)) =>
            LET body == wire[c][1].body[1]
                params == call[c].payload[1].o
            IN  /\ body.t = "object"
                /\ DOMAIN body.o = DOMAIN params
                /\ \A k \in DOMAIN params : body.o[k] = params[k]
                /\ wire[c][1].content_type = Some("application/json")
                /\ call[c].op = "create_transaction" =>
                      /\ DOMAIN body.o = CreateKeys
                      /\ ~IsSome(call[c].args.payout_extra_id) =>
                            body.o["payout_extra_id"] = JNull
                      /\ ~IsSome(call[c].args.tx_type) => body.o["tx_type"] = JNull
                      /\ ~IsSome(call[c].args.is_use_xmr) => body.o["is_use_xmr"] = JNull

C8_Witness ==
    \E c \in Calls :
        /\ pc[c] = "sending"
        /\ call[c].op = "create_transaction"
        /\ call[c].args.payout_extra_id = None
        /\ call[c].args.tx_type = None
        /\ call[c].args.is_use_xmr = None
        /\ DOMAIN wire[c][1].body[1].o = CreateKeys
        /\ wire[c][1].body[1].o["payout_extra_id"].t = "null"

\* C9: a dispatcher call with method GET or POST, hence every call of a
\* domain operation, issues exactly one network request whatever its outcome;
\* a call with another method issues none and fails with UnsupportedMethod,
\* which no domain operation ever yields.
C9_OneRequestPerCall ==
    \A c \in Calls :
        pc[c] # "idle" =>
            /\ call[c].req_method \in {"GET", "POST"} => Len(wire[c]) = 1
            /\ call[c].req_method \notin {"GET", "POST"} =>
                  /\ Len(wire[c]) = 0
                  /\ pc[c] = "done"
                  /\ outcome[c] = Err("UnsupportedMethod", "")
            /\ call[c].op \in Ops =>
                  /\ Len(wire[c]) = 1
                  /\ outcome[c].err # "UnsupportedMethod"

C9_Witness ==
    \E c \in Calls :
        /\ ReturnedOp(c)
        /\ resp[c].kind = "response" /\ resp[c].status = 404
        /\ outcome[c].err = "SendRequestError"
        /\ Len(wire[c]) = 1

\* the state of call slot c
Slot(c) == <<pc[c], call[c], wire[c], resp[c], bodyRead[c], outcome[c]>>

\* C10: calls are independent and stateless: under any interleaving the
\* outcome of a call is the one its own operation makes of the response to
\* its own request, two calls with the same arguments and the same response
\* end alike, a step of one call leaves every other call untouched, and no
\* step changes the client's base URL.
C10_CallsIndependent ==
    /\ [](\A c \in Calls :
            (pc[c] = "done" /\ Len(wire[c]) = 1) =>
                /\ outcome[c] = OutcomeOf(call[c].op, resp[c])
                /\ \A d \in Calls :
                      (pc[d] = "done" /\ call[d] = call[c] /\ resp[d] = resp[c]) =>
                          outcome[d] = outcome[c])
    /\ [][/\ base_url' = base_url
          /\ \E c \in Calls : \A d \in Calls \ {c} : Slot(d)' = Slot(d)]_vars

C10_Witness ==
    /\ pc[1] = "done" /\ pc[2] = "done"
    /\ call[1].op = "get_quote" /\ call[2] = call[1]
    /\ outcome[1].kind = "ok"
    /\ outcome[2] = Err("GetEstimatedExchangeAmountError", "not found")
    /\ base_url = BASE_URL

====
